---- MODULE Spec2Model ----
(***************************************************************************)
(* Congestion-aware city traffic simulation                                *)
(* (src/step9c_congestion_simulation.py).                                  *)
(*                                                                         *)
(* A CityModel holds a directed multigraph G whose edges carry lanes,      *)
(* base_travel_time and travel_time, a grid mapping every node to the set  *)
(* of agents on it, and a list of VehicleAgents (pos, destination, path).  *)
(* agentpy's Model.run drives it: setup(), update(), then while running:   *)
(* t += 1; step(); update(); stop when t >= steps; finally end().          *)
(* agents.step() calls VehicleAgent.step on each agent in list order.      *)
(*                                                                         *)
(* Travel times are exact rationals <<numerator, denominator>>.            *)
(* Every draw of model.random is a nondeterministic choice among the       *)
(* nodes; ties between equally short routes are a nondeterministic choice  *)
(* among the minimum-weight simple paths.                                  *)
(***************************************************************************)
EXTENDS Integers, Sequences, FiniteSets, TLC

\* ---- bounds of the model ----
NumNodes == 3
NumAgents == 2
MaxSteps == 5
\* CAPACITY_PER_LANE is 10 in the source (line 22); it is scaled down here so
\* that NumAgents agents can exceed the capacity of an edge.
CAPACITY_PER_LANE == 1

\* ---- program constants ----
RECALCULATE_PATH_STEPS == 5
None == 0

Nodes == 1..NumNodes
Agents == 1..NumAgents
\* The configured numbers of steps: no tick, one tick, and the longest run
\* (every shorter run is a prefix of it up to the stop test).
StepCounts == {0, 1, MaxSteps}

VARIABLES
    G,                \* model.G: [nodes, edges: <<u,v,key>> -> attributes]
    grid,             \* model.grid: node -> set of agents
    agent_positions,  \* model.agent_positions: agent id -> node (dict)
    agents,           \* model.agents: agent -> [pos, destination, path]
    t,                \* model.t
    steps,            \* model.p.steps
    running,          \* model.running
    pc,               \* position of Model.run
    cur,              \* agent the setup loop / agents.step() is at
    redraws,          \* history: destination draws made by the agent step just taken
    routed,           \* history: Router calls made by the agent step just taken
    moved,            \* history: agents move_agent was called on in this tick
    updates,          \* history: number of update() calls so far
    G_base,           \* step8's model.G_base (None in the congestion simulation)
    removed_count     \* step8: the count apply_highway_closure reports

vars == <<G, grid, agent_positions, agents, t, steps, running, pc, cur,
          redraws, routed, moved, updates, G_base, removed_count>>

\* ---- exact rational arithmetic for travel times ----
RatLeq(a, b) == a[1] * b[2] <= b[1] * a[2]
RatLt(a, b) == a[1] * b[2] < b[1] * a[2]
RatEq(a, b) == a[1] * b[2] = b[1] * a[2]
RatAdd(a, b) == <<a[1] * b[2] + b[1] * a[2], a[2] * b[2]>>

Range(s) == {s[i] : i \in DOMAIN s}

\* ---- the networks the simulation is run on (state after the load and
\*      the type-cast loop: travel_time = base_travel_time) ----
E(u, v, k, lanes, base) == [u |-> u, v |-> v, k |-> k, lanes |-> lanes, base |-> base]

MkGraph(es) ==
    [nodes |-> Nodes,
     edges |-> [e \in {<<r.u, r.v, r.k>> : r \in es} |->
                  LET r == CHOOSE x \in es : <<x.u, x.v, x.k>> = e
                  IN  [lanes |-> r.lanes,
                       base_travel_time |-> r.base,
                       travel_time |-> <<r.base, 1>>]]]

\* 1 - 2 - ... - n, both directions, unit times, one lane
LineGraph ==
    MkGraph({E(i, i + 1, 0, 1, 1) : i \in 1..(NumNodes - 1)}
            \cup {E(i + 1, i, 0, 1, 1) : i \in 1..(NumNodes - 1)})

\* one-way chain 1 -> 2 -> ... -> n, two parallel shortcuts 1 -> n
\* (one lane / two lanes) and a two-lane return n -> 1
DetourGraph ==
    MkGraph({E(i, i + 1, 0, 1, 1) : i \in 1..(NumNodes - 1)}
            \cup {E(1, NumNodes, 7, 1, NumNodes - 1),
                  E(1, NumNodes, 8, 2, NumNodes),
                  E(NumNodes, 1, 0, 2, 1)})

\* nodes 1 and 2 joined in both directions; every other node has no edge
IsleGraph ==
    MkGraph({E(1, 2, 0, 1, 2), E(2, 1, 0, 2, 1)})

Graphs == {LineGraph, DetourGraph, IsleGraph}

graph_nodes == G.nodes

\* ---- graph queries (networkx) ----
EdgeKeys(g, u, v) == {e \in DOMAIN g.edges : e[1] = u /\ e[2] = v}
Succ(g, u) == {e[2] : e \in {x \in DOMAIN g.edges : x[1] = u}}
Adjacent(g, u, v) == EdgeKeys(g, u, v) # {}

\* weight of the hop u -> v: the least travel_time among the parallel edges
weight(g, u, v) ==
    LET ts == {g.edges[e].travel_time : e \in EdgeKeys(g, u, v)}
    IN  CHOOSE w \in ts : \A x \in ts : RatLeq(w, x)

RECURSIVE SimplePaths(_, _, _)
SimplePaths(g, p, d) ==
    IF p[Len(p)] = d THEN {p}
    ELSE UNION {SimplePaths(g, Append(p, v), d) : v \in Succ(g, p[Len(p)]) \ Range(p)}

RECURSIVE PathWeight(_, _)
PathWeight(g, p) ==
    IF Len(p) <= 1 THEN <<0, 1>>
    ELSE RatAdd(weight(g, p[1], p[2]), PathWeight(g, Tail(p)))

\* nx.shortest_path(G, source, target, weight='travel_time'): the set of
\* minimum-weight paths (source first, target last); {} stands for
\* NetworkXNoPath / NodeNotFound
shortest_path(g, source, target) ==
    IF source \notin g.nodes \/ target \notin g.nodes THEN {}
    ELSE LET ps == SimplePaths(g, <<source>>, target)
         IN  {p \in ps : \A q \in ps : RatLeq(PathWeight(g, p), PathWeight(g, q))}

\* ---- VehicleAgent ----
\* A working copy of an agent during one call: its fields plus the number of
\* destination draws (nd) and Router calls (nr) made so far in the tick, and
\* the target of the first of these Router calls (None before it).
Work(a, nd, nr) ==
    [pos |-> a.pos, destination |-> a.destination, path |-> a.path,
     nd |-> nd, nr |-> nr, first_target |-> None]

\* the target of the first Router call of the call sequence, once w's
\* destination has been passed to the Router
Routed(w) == IF w.first_target = None THEN w.destination ELSE w.first_target

AgentOf(w) == [pos |-> w.pos, destination |-> w.destination, path |-> w.path]

\* mutant: the source node is not popped off the computed path
calculate_new_path_nopop(g, w) ==
    IF w.pos = None THEN {[w EXCEPT !.path = <<>>]}
    ELSE LET sp == shortest_path(g, w.pos, w.destination)
         IN  IF sp # {}
             THEN {[w EXCEPT !.path = p, !.nr = @ + 1,
                             !.first_target = Routed(w)] : p \in sp}
             ELSE {[w EXCEPT !.destination = d, !.path = <<>>,
                             !.nr = @ + 1, !.nd = @ + 1,
                             !.first_target = Routed(w)] : d \in g.nodes}

\* VehicleAgent.calculate_new_path: the possible results
calculate_new_path(g, w) ==
    IF w.pos = None THEN {[w EXCEPT !.path = <<>>]}
    ELSE LET sp == shortest_path(g, w.pos, w.destination)
         IN  IF sp # {}
             THEN {[w EXCEPT !.path = Tail(p), !.nr = @ + 1,
                             !.first_target = Routed(w)] : p \in sp}
             ELSE {[w EXCEPT !.destination = d, !.path = <<>>,
                             !.nr = @ + 1, !.nd = @ + 1,
                             !.first_target = Routed(w)] : d \in g.nodes}

\* mutant: an agent left without a route redraws and retries a second time
StepDecisionRetryTwice(g, tick, w) ==
    LET first == IF tick % RECALCULATE_PATH_STEPS = 0
                 THEN calculate_new_path(g, w)
                 ELSE {w}
        retry(w1) ==
            IF w1.path = <<>>
            THEN UNION {calculate_new_path(g, [w1 EXCEPT !.destination = d,
                                                         !.nd = @ + 1])
                        : d \in g.nodes}
            ELSE {w1}
    IN  UNION {retry(w2) : w2 \in UNION {retry(w1) : w1 \in first}}

\* mutant: the route is recomputed at the start of every step
StepDecisionAlwaysRecalc(g, tick, w) ==
    LET first == calculate_new_path(g, w)
        retry(w1) ==
            IF w1.path = <<>>
            THEN UNION {calculate_new_path(g, [w1 EXCEPT !.destination = d,
                                                         !.nd = @ + 1])
                        : d \in g.nodes}
            ELSE {w1}
    IN  UNION {retry(w1) : w1 \in first}

\* mutant: with an empty route the Router is first called for the
\* destination held, and a destination is drawn only if that gives no route
StepDecisionCallFirst(g, tick, w) ==
    LET first == IF tick % RECALCULATE_PATH_STEPS = 0 \/ w.path = <<>>
                 THEN calculate_new_path(g, w)
                 ELSE {w}
        retry(w1) ==
            IF w1.path = <<>>
            THEN UNION {calculate_new_path(g, [w1 EXCEPT !.destination = d,
                                                         !.nd = @ + 1])
                        : d \in g.nodes}
            ELSE {w1}
    IN  UNION {retry(w1) : w1 \in first}

\* VehicleAgent.step up to the move (lines 52-59): the possible results
StepDecision(g, tick, w) ==
    LET first == IF tick % RECALCULATE_PATH_STEPS = 0
                 THEN calculate_new_path(g, w)
                 ELSE {w}
        retry(w1) ==
            IF w1.path = <<>>
            THEN UNION {calculate_new_path(g, [w1 EXCEPT !.destination = d,
                                                         !.nd = @ + 1])
                        : d \in g.nodes}
            ELSE {w1}
    IN  UNION {retry(w1) : w1 \in first}

\* ---- CityModel ----
\* mutant: the agent is not removed from the node it leaves
move_agent_noremove(gr, ags, ap, a, new_pos) ==
    [grid |-> [gr EXCEPT ![new_pos] = @ \cup {a}],
     agents |-> [ags EXCEPT ![a].pos = new_pos],
     agent_positions |-> [ap EXCEPT ![a] = new_pos]]

\* mutant: a move to a node that is no out-neighbour is refused
move_agent_checked(gr, ags, ap, a, new_pos) ==
    IF Adjacent(G, ags[a].pos, new_pos)
    THEN [grid |-> [[gr EXCEPT ![ags[a].pos] = @ \ {a}] EXCEPT ![new_pos] = @ \cup {a}],
          agents |-> [ags EXCEPT ![a].pos = new_pos],
          agent_positions |-> [ap EXCEPT ![a] = new_pos]]
    ELSE [grid |-> gr, agents |-> ags, agent_positions |-> ap]

\* mutant: the agent's own pos field is not updated by the move
move_agent_nopos(gr, ags, ap, a, new_pos) ==
    LET current_pos == ags[a].pos
        removed == [gr EXCEPT ![current_pos] = @ \ {a}]
    IN  [grid |-> [removed EXCEPT ![new_pos] = @ \cup {a}],
         agents |-> ags,
         agent_positions |-> [ap EXCEPT ![a] = new_pos]]

\* mutant: the arriving agent replaces the set of the node it moves to
move_agent_overwrite(gr, ags, ap, a, new_pos) ==
    LET current_pos == ags[a].pos
        removed == [gr EXCEPT ![current_pos] = @ \ {a}]
    IN  [grid |-> [removed EXCEPT ![new_pos] = {a}],
         agents |-> [ags EXCEPT ![a].pos = new_pos],
         agent_positions |-> [ap EXCEPT ![a] = new_pos]]

\* CityModel.move_agent: the new grid, agents and agent_positions
move_agent(gr, ags, ap, a, new_pos) ==
    LET current_pos == ags[a].pos
        removed == [gr EXCEPT ![current_pos] = @ \ {a}]
    IN  [grid |-> [removed EXCEPT ![new_pos] = @ \cup {a}],
         agents |-> [ags EXCEPT ![a].pos = new_pos],
         agent_positions |-> [ap EXCEPT ![a] = new_pos]]

\* dict.get(key, default)
Get(d, key, default) == IF key \in DOMAIN d THEN d[key] ELSE default

\* update, step 2: node -> number of agents, for the occupied nodes only
node_congestion(gr) ==
    [n \in {m \in DOMAIN gr : Cardinality(gr[m]) > 0} |-> Cardinality(gr[n])]

\* mutant: the travel times are not reset before the congestion is applied
KeepTravelTimes(edges) == edges

\* update, step 1: every travel_time back to base_travel_time
ResetTravelTimes(edges) ==
    [e \in DOMAIN edges |->
        [edges[e] EXCEPT !.travel_time = <<edges[e].base_travel_time, 1>>]]

\* mutant: the congestion factor is inverted (capacity / total_congestion)
CongestedEdgeInverted(e, data, nc) ==
    LET total_congestion == Get(nc, e[1], 0) + Get(nc, e[2], 0)
        capacity == data.lanes * CAPACITY_PER_LANE
    IN  IF total_congestion > capacity
        THEN [data EXCEPT !.travel_time =
                  <<data.base_travel_time * capacity, total_congestion>>]
        ELSE data

\* mutant: the slowed-down time is also written over base_travel_time
CongestedEdgeWritesBase(e, data, nc) ==
    LET total_congestion == Get(nc, e[1], 0) + Get(nc, e[2], 0)
        capacity == data.lanes * CAPACITY_PER_LANE
    IN  IF total_congestion > capacity
        THEN [data EXCEPT !.travel_time =
                  <<data.base_travel_time * total_congestion, capacity>>,
                          !.base_travel_time = @ * total_congestion]
        ELSE data

\* update, step 3, for one edge
CongestedEdge(e, data, nc) ==
    LET total_congestion == Get(nc, e[1], 0) + Get(nc, e[2], 0)
        capacity == data.lanes * CAPACITY_PER_LANE
    IN  IF total_congestion > capacity
        THEN [data EXCEPT !.travel_time =
                  <<data.base_travel_time * total_congestion, capacity>>]
        ELSE data

\* mutant: no reset, and the congestion factor multiplies the current
\* travel_time instead of base_travel_time
update_incremental(edges, gr) ==
    LET nc == node_congestion(gr)
    IN  [e \in DOMAIN edges |->
           LET total_congestion == Get(nc, e[1], 0) + Get(nc, e[2], 0)
               capacity == edges[e].lanes * CAPACITY_PER_LANE
           IN  IF total_congestion > capacity
               THEN [edges[e] EXCEPT !.travel_time =
                        <<@[1] * total_congestion, @[2] * capacity>>]
               ELSE edges[e]]

\* CityModel.update: the new edge attributes
update(edges, gr) ==
    LET reset == ResetTravelTimes(edges)
        nc == node_congestion(gr)
    IN  [e \in DOMAIN edges |-> CongestedEdge(e, reset[e], nc)]

\* ---- the run ----
Init ==
    /\ G \in Graphs
    /\ grid = [n \in Nodes |-> {}]
    /\ agent_positions = << >>
    /\ agents \in {[a \in Agents |-> [pos |-> None, destination |-> d[a], path |-> <<>>]]
                   : d \in [Agents -> Nodes]}
    /\ t = 0
    /\ steps \in StepCounts
    /\ running = TRUE
    /\ pc = "setup"
    /\ cur = 1
    /\ redraws = 0
    /\ routed = 0
    /\ moved = {}
    /\ updates = 0
    /\ G_base = None
    /\ removed_count = 0

\* mutant: the congestion update runs after every single agent
NextAgentUpdateEach(after) ==
    /\ cur' = cur + 1
    /\ pc' = "update"

\* the loop over the agents goes on to the next agent, or is over
NextAgent(after) ==
    /\ cur' = cur + 1
    /\ pc' = IF cur = NumAgents THEN "update" ELSE after

\* CityModel.setup, lines 118-123: one turn of the placement loop
Place ==
    /\ pc = "setup"
    /\ \E pos \in graph_nodes :
         LET placed == [agents[cur] EXCEPT !.pos = pos]
         IN  \E w \in calculate_new_path(G, Work(placed, 0, 0)) :
               /\ agents' = [agents EXCEPT ![cur] = AgentOf(w)]
               /\ grid' = [grid EXCEPT ![pos] = @ \cup {cur}]
               /\ agent_positions' = (cur :> pos) @@ agent_positions
    /\ NextAgent("setup")
    /\ UNCHANGED <<G_base, removed_count, G, t, steps, running, redraws, routed, moved, updates>>

\* mutant: an agent left without a route ends the whole agent phase
AgentDecideAbort ==
    /\ pc = "decide"
    /\ \E w \in StepDecision(G, t, Work(agents[cur], 0, 0)) :
         /\ agents' = [agents EXCEPT ![cur] = AgentOf(w)]
         /\ redraws' = w.nd
         /\ routed' = w.nr
         /\ IF w.path = <<>>
            THEN pc' = "update" /\ cur' = NumAgents + 1
            ELSE pc' = "move" /\ cur' = cur
    /\ UNCHANGED <<G_base, removed_count, G, grid, agent_positions, t, steps, running, moved, updates>>

\* VehicleAgent.step of agent cur, up to the move
AgentDecide ==
    /\ pc = "decide"
    /\ \E w \in StepDecision(G, t, Work(agents[cur], 0, 0)) :
         /\ agents' = [agents EXCEPT ![cur] = AgentOf(w)]
         /\ redraws' = w.nd
         /\ routed' = w.nr
         /\ IF w.path = <<>>
            THEN NextAgent("decide")
            ELSE pc' = "move" /\ cur' = cur
    /\ UNCHANGED <<G_base, removed_count, G, grid, agent_positions, t, steps, running, moved, updates>>

\* mutant: every move recomputes the congestion at once
AgentMoveRecompute ==
    /\ pc = "move"
    /\ LET new_pos == Head(agents[cur].path)
           popped == [agents EXCEPT ![cur].path = Tail(@)]
           m == move_agent(grid, popped, agent_positions, cur, new_pos)
       IN  /\ grid' = m.grid
           /\ agents' = m.agents
           /\ agent_positions' = m.agent_positions
           /\ G' = [G EXCEPT !.edges = update(G.edges, m.grid)]
    /\ moved' = moved \cup {cur}
    /\ redraws' = 0
    /\ routed' = 0
    /\ NextAgent("decide")
    /\ UNCHANGED <<G_base, removed_count, t, steps, running, updates>>

\* mutant: the node moved to is not popped off the route
AgentMoveNoPop ==
    /\ pc = "move"
    /\ LET new_pos == Head(agents[cur].path)
           m == move_agent(grid, agents, agent_positions, cur, new_pos)
       IN  /\ grid' = m.grid
           /\ agents' = m.agents
           /\ agent_positions' = m.agent_positions
    /\ moved' = moved \cup {cur}
    /\ redraws' = 0
    /\ routed' = 0
    /\ NextAgent("decide")
    /\ UNCHANGED <<G_base, removed_count, G, t, steps, running, updates>>

\* mutant: the agent keeps moving in the same step until its route is used up
AgentMoveWholeRoute ==
    /\ pc = "move"
    /\ LET new_pos == Head(agents[cur].path)
           popped == [agents EXCEPT ![cur].path = Tail(@)]
           m == move_agent(grid, popped, agent_positions, cur, new_pos)
       IN  /\ grid' = m.grid
           /\ agents' = m.agents
           /\ agent_positions' = m.agent_positions
    /\ moved' = moved \cup {cur}
    /\ redraws' = 0
    /\ routed' = 0
    /\ IF Tail(agents[cur].path) # <<>>
       THEN pc' = "move" /\ cur' = cur
       ELSE NextAgent("decide")
    /\ UNCHANGED <<G_base, removed_count, G, t, steps, running, updates>>

\* VehicleAgent.step of agent cur, lines 61-62
AgentMove ==
    /\ pc = "move"
    /\ LET new_pos == Head(agents[cur].path)
           popped == [agents EXCEPT ![cur].path = Tail(@)]
           m == move_agent(grid, popped, agent_positions, cur, new_pos)
       IN  /\ grid' = m.grid
           /\ agents' = m.agents
           /\ agent_positions' = m.agent_positions
    /\ moved' = moved \cup {cur}
    /\ redraws' = 0
    /\ routed' = 0
    /\ NextAgent("decide")
    /\ UNCHANGED <<G_base, removed_count, G, t, steps, running, updates>>

\* mutant: the run stops one tick late
StepsExceeded(tick, n) == tick > n

\* Model.run's stop test after every update
StepsReached(tick, n) == tick >= n

\* mutant: the update empties the grid once it has read it
UpdateClearsGrid ==
    /\ pc = "update"
    /\ G' = [G EXCEPT !.edges = update(G.edges, grid)]
    /\ grid' = [n \in DOMAIN grid |-> {}]
    /\ updates' = updates + 1
    /\ running' = IF StepsReached(t, steps) THEN FALSE ELSE running
    /\ pc' = "loop"
    /\ redraws' = 0
    /\ routed' = 0
    /\ UNCHANGED <<G_base, removed_count, agent_positions, agents, t, steps, cur, moved>>

\* CityModel.update, then Model.run's stop test
Update ==
    /\ pc = "update"
    /\ G' = [G EXCEPT !.edges = update(G.edges, grid)]
    /\ updates' = updates + 1
    /\ running' = IF StepsReached(t, steps) THEN FALSE ELSE running
    /\ pc' = "loop"
    /\ redraws' = 0
    /\ routed' = 0
    /\ UNCHANGED <<G_base, removed_count, grid, agent_positions, agents, t, steps, cur, moved>>

\* Model.sim_step: t += 1, then CityModel.step starts agents.step()
SimStep ==
    /\ pc = "loop"
    /\ running
    /\ t' = t + 1
    /\ pc' = "decide"
    /\ cur' = 1
    /\ moved' = {}
    /\ UNCHANGED <<G_base, removed_count, G, grid, agent_positions, agents, steps, running, redraws, routed, updates>>

\* CityModel.end
End ==
    /\ pc = "loop"
    /\ ~running
    /\ pc' = "done"
    /\ UNCHANGED <<G_base, removed_count, G, grid, agent_positions, agents, t, steps, running, cur,
                   redraws, routed, moved, updates>>

Next == Place \/ AgentDecide \/ AgentMove \/ Update \/ SimStep \/ End

Spec == Init /\ [][Next]_vars

\* The run never pauses: Model.run is one sequential loop.
FairSpec == Spec /\ WF_vars(Next)

\* A caller invokes CityModel.move_agent(agent, new_pos) with any agent and
\* any node at the start of a tick, before the first agent's step; the run
\* is not followed further.
MoveCall(a, new_pos) ==
    /\ pc = "decide"
    /\ cur = 1
    /\ LET m == move_agent(grid, agents, agent_positions, a, new_pos)
       IN  /\ grid' = m.grid
           /\ agents' = m.agents
           /\ agent_positions' = m.agent_positions
    /\ moved' = moved \cup {a}
    /\ pc' = "called"
    /\ UNCHANGED <<G_base, removed_count, G, t, steps, running, cur, redraws, routed, updates>>

NextMove == Next \/ \E a \in Agents, new_pos \in Nodes : MoveCall(a, new_pos)

\* The run with move_agent open to arbitrary calls
SpecMove == Init /\ [][NextMove]_vars


\* ---- the line scenario: the run on LineGraph with agent 1 placed on node 1
\*      and heading for the far end ----
InitLine ==
    /\ Init
    /\ G = LineGraph
    /\ agents[1].destination = NumNodes

PlaceLine ==
    /\ Place
    /\ cur = 1 => agent_positions'[1] = 1

NextLine == PlaceLine \/ AgentDecide \/ AgentMove \/ Update \/ SimStep \/ End

SpecLine == InitLine /\ [][NextLine]_vars


\* ---- step8_what_if_highway_closure.py: the highway-closure simulation ----
\* An edge of the base graph: 'length' and, unless tag is "none", 'highway'
R(u, v, k, tag, length) == [u |-> u, v |-> v, k |-> k, tag |-> tag, length |-> length]

MkRoadGraph(es) ==
    [nodes |-> Nodes,
     edges |-> [e \in {<<r.u, r.v, r.k>> : r \in es} |->
                  LET r == CHOOSE x \in es : <<x.u, x.v, x.k>> = e
                  IN  IF r.tag = "none"
                      THEN [length |-> r.length]
                      ELSE [highway |-> r.tag, length |-> r.length]]]

\* residential line 1 - ... - n in both directions, one hop of it without a
\* 'highway' attribute
Streets ==
    {R(i, i + 1, 0, IF i = 1 THEN "none" ELSE "residential", 2) : i \in 1..(NumNodes - 1)}
        \cup {R(i + 1, i, 0, "residential", 2) : i \in 1..(NumNodes - 1)}

\* the streets, a motorway 1 -> n -> 1, a motorway link and a primary road
\* parallel to the first hop
MotorwayGraph ==
    MkRoadGraph(Streets \cup {R(1, NumNodes, 0, "motorway", 1),
                              R(NumNodes, 1, 0, "motorway", 1),
                              R(1, 2, 1, "primary", 1),
                              R(2, 1, 1, "motorway_link", 1)})

\* no motorway; node 1 is joined to the rest by primary roads only
PrimaryGraph ==
    MkRoadGraph({r \in Streets : r.u # 1 /\ r.v # 1}
                \cup {R(1, 2, 0, "primary", 1), R(2, 1, 0, "primary", 1),
                      R(2, 1, 1, "primary", 3)})

\* neither motorway nor primary
StreetGraph == MkRoadGraph(Streets \cup {R(2, 1, 1, "motorway_link", 1)})

RoadGraphs == {MotorwayGraph, PrimaryGraph, StreetGraph}

\* self.G before setup has assigned it
NoGraph == [nodes |-> {}, edges |-> << >>]

\* apply_highway_closure, lines 30-33 and 37-39: the edges with the tag
TaggedEdges(g, tag) ==
    {e \in DOMAIN g.edges :
        "highway" \in DOMAIN g.edges[e] /\ g.edges[e].highway = tag}

\* mutant: the primary roads are closed as well as the motorways
edges_to_remove_both(g) == TaggedEdges(g, "motorway") \cup TaggedEdges(g, "primary")

\* apply_highway_closure, lines 30-39
edges_to_remove(g) ==
    IF TaggedEdges(g, "motorway") # {}
    THEN TaggedEdges(g, "motorway")
    ELSE TaggedEdges(g, "primary")

\* G.remove_edges_from
remove_edges_from(g, es) ==
    [g EXCEPT !.edges = [e \in (DOMAIN g.edges) \ es |-> g.edges[e]]]

\* apply_highway_closure: the graph it returns and the count it prints
apply_highway_closure(g) ==
    [G |-> remove_edges_from(g, edges_to_remove(g)),
     count |-> Cardinality(edges_to_remove(g))]

\* G_base.copy(): a new graph object with the same nodes and edges
Copy(g) == [graph |-> g, same_object |-> FALSE]

\* length of the hop u -> v: the least 'length' among the parallel edges
length_weight(g, u, v) ==
    LET ls == {g.edges[e].length : e \in EdgeKeys(g, u, v)}
    IN  CHOOSE w \in ls : \A x \in ls : w <= x

RECURSIVE PathLength(_, _)
PathLength(g, p) ==
    IF Len(p) <= 1 THEN 0
    ELSE length_weight(g, p[1], p[2]) + PathLength(g, Tail(p))

\* nx.shortest_path(G, source, target, weight='length')
shortest_path_length(g, source, target) ==
    IF source \notin g.nodes \/ target \notin g.nodes THEN {}
    ELSE LET ps == SimplePaths(g, <<source>>, target)
         IN  {p \in ps : \A q \in ps : PathLength(g, p) <= PathLength(g, q)}

\* step8's VehicleAgent.calculate_new_path: the possible results
closure_calculate_new_path(g, w) ==
    IF w.pos = None THEN {[w EXCEPT !.path = <<>>]}
    ELSE LET sp == shortest_path_length(g, w.pos, w.destination)
         IN  IF sp # {}
             THEN {[w EXCEPT !.path = Tail(p), !.nr = @ + 1,
                             !.first_target = Routed(w)] : p \in sp}
             ELSE {[w EXCEPT !.destination = d, !.path = <<>>,
                             !.nr = @ + 1, !.nd = @ + 1,
                             !.first_target = Routed(w)] : d \in g.nodes}

\* step8's VehicleAgent.step up to the move (lines 67-71)
ClosureStepDecision(g, w) ==
    IF w.path = <<>>
    THEN UNION {closure_calculate_new_path(g, [w EXCEPT !.destination = d,
                                                        !.nd = @ + 1])
                : d \in g.nodes}
    ELSE {w}

InitClosure ==
    /\ G_base \in RoadGraphs
    /\ G = NoGraph
    /\ removed_count = 0
    /\ grid = [n \in Nodes |-> {}]
    /\ agent_positions = << >>
    /\ agents \in {[a \in Agents |-> [pos |-> None, destination |-> d[a], path |-> <<>>]]
                   : d \in [Agents -> Nodes]}
    /\ t = 0
    /\ steps \in StepCounts
    /\ running = TRUE
    /\ pc = "closure"
    /\ cur = 1
    /\ redraws = 0
    /\ routed = 0
    /\ moved = {}
    /\ updates = 0

\* step8's CityModel.setup, lines 81-89: copy the base graph, close the roads
ClosureSetup ==
    /\ pc = "closure"
    /\ LET c == Copy(G_base)
           r == apply_highway_closure(c.graph)
       IN  /\ G' = r.G
           /\ removed_count' = r.count
           /\ G_base' = IF c.same_object THEN r.G ELSE G_base
    /\ pc' = "setup"
    /\ UNCHANGED <<grid, agent_positions, agents, t, steps, running, cur,
                   redraws, routed, moved, updates>>

\* mutant: the initial route is computed on the base graph
ClosurePlaceOnBase ==
    /\ pc = "setup"
    /\ \E drawn \in graph_nodes, again \in graph_nodes :
         LET pos == IF drawn \notin G.nodes THEN again ELSE drawn
             placed == [agents[cur] EXCEPT !.pos = pos]
         IN  \E w \in closure_calculate_new_path(G_base, Work(placed, 0, 0)) :
               /\ agents' = [agents EXCEPT ![cur] = AgentOf(w)]
               /\ grid' = [grid EXCEPT ![pos] = @ \cup {cur}]
               /\ agent_positions' = (cur :> pos) @@ agent_positions
    /\ NextAgent("setup")
    /\ UNCHANGED <<G, G_base, removed_count, t, steps, running, redraws, routed,
                   moved, updates>>

\* step8's CityModel.setup, lines 107-116: one turn of the placement loop
ClosurePlace ==
    /\ pc = "setup"
    /\ \E drawn \in graph_nodes, again \in graph_nodes :
         LET pos == IF drawn \notin G.nodes THEN again ELSE drawn
             placed == [agents[cur] EXCEPT !.pos = pos]
         IN  \E w \in closure_calculate_new_path(G, Work(placed, 0, 0)) :
               /\ agents' = [agents EXCEPT ![cur] = AgentOf(w)]
               /\ grid' = [grid EXCEPT ![pos] = @ \cup {cur}]
               /\ agent_positions' = (cur :> pos) @@ agent_positions
    /\ NextAgent("setup")
    /\ UNCHANGED <<G, G_base, removed_count, t, steps, running, redraws, routed,
                   moved, updates>>

\* step8's VehicleAgent.step of agent cur, up to the move
ClosureDecide ==
    /\ pc = "decide"
    /\ \E w \in ClosureStepDecision(G, Work(agents[cur], 0, 0)) :
         /\ agents' = [agents EXCEPT ![cur] = AgentOf(w)]
         /\ redraws' = w.nd
         /\ routed' = w.nr
         /\ IF w.path = <<>>
            THEN NextAgent("decide")
            ELSE pc' = "move" /\ cur' = cur
    /\ UNCHANGED <<G, G_base, removed_count, grid, agent_positions, t, steps,
                   running, moved, updates>>

\* step8's CityModel.update (it only prints), then Model.run's stop test
ClosureUpdate ==
    /\ pc = "update"
    /\ updates' = updates + 1
    /\ running' = IF StepsReached(t, steps) THEN FALSE ELSE running
    /\ pc' = "loop"
    /\ redraws' = 0
    /\ routed' = 0
    /\ UNCHANGED <<G, G_base, removed_count, grid, agent_positions, agents, t,
                   steps, cur, moved>>

\* step8's move (lines 72-73), tick and end are the same code as step9c's
NextClosure ==
    ClosureSetup \/ ClosurePlace \/ ClosureDecide \/ AgentMove \/ ClosureUpdate
        \/ SimStep \/ End

SpecClosure == InitClosure /\ [][NextClosure]_vars

\* ---- step9c's load: the graph as ox.load_graphml returns it, and the
\*      type-cast loop of CityModel.setup (lines 83-99) ----
\* Python's float() on the strings used here, in tenths; ok = FALSE stands
\* for ValueError
float_of(s) ==
    CASE s = "1"    -> [ok |-> TRUE, tenths |-> 10]
      [] s = "2"    -> [ok |-> TRUE, tenths |-> 20]
      [] s = "2.7"  -> [ok |-> TRUE, tenths |-> 27]
      [] s = "0"    -> [ok |-> TRUE, tenths |-> 0]
      [] s = "0.5"  -> [ok |-> TRUE, tenths |-> 5]
      [] s = "-1"   -> [ok |-> TRUE, tenths |-> -10]
      [] s = "-1.5" -> [ok |-> TRUE, tenths |-> -15]
      [] s = "10.0" -> [ok |-> TRUE, tenths |-> 100]
      [] OTHER      -> [ok |-> FALSE, tenths |-> 0]

\* Python's int() on a float: truncation towards zero
int_of(tenths) == IF tenths >= 0 THEN tenths \div 10 ELSE -((-tenths) \div 10)

\* a 'lanes' value in the loaded graph: a string or a list of strings
Str(s) == [kind |-> "str", s |-> s]
List(l) == [kind |-> "list", items |-> l]
RawLanes ==
    {Str(s) : s \in {"1", "2", "2.7", "0", "0.5", "-1", "-1.5", "two", "2;3"}}
        \cup {List(<<"2", "3">>), List(<<"two", "2">>), List(<< >>)}

\* the attributes of an edge before the cast: lanes = Absent leaves the
\* key out, base is the base_travel_time string
Absent == [kind |-> "absent"]
RawEdge(lanes, base) ==
    IF lanes.kind = "absent"
    THEN [base_travel_time |-> base]
    ELSE [lanes |-> lanes, base_travel_time |-> base]

\* nodes 1 and 2 joined in both directions, with every combination of
\* 'lanes' values (or none) on the two edges
RawGraphs ==
    {[nodes |-> Nodes,
      edges |-> (<<1, 2, 0>> :> RawEdge(l1, "2")) @@ (<<2, 1, 0>> :> RawEdge(l2, "1"))]
        : l1 \in RawLanes \cup {Absent}, l2 \in RawLanes \cup {Absent}}

\* mutant: a lanes value that is not a number of at least 1 becomes 1
cast_lanes_tolerant(data) ==
    LET lanes_str == IF "lanes" \in DOMAIN data THEN data.lanes ELSE Str("1")
        first == IF lanes_str.kind = "list"
                 THEN (IF lanes_str.items = << >> THEN "1" ELSE lanes_str.items[1])
                 ELSE lanes_str.s
        f == float_of(first)
    IN  IF f.ok /\ int_of(f.tenths) >= 1
        THEN [ok |-> TRUE, lanes |-> int_of(f.tenths)]
        ELSE [ok |-> TRUE, lanes |-> 1]

\* lines 85-88: data.get('lanes', '1'), first element of a list,
\* int(float(.)); ok = FALSE stands for the ValueError / IndexError raised
cast_lanes(data) ==
    LET lanes_str == IF "lanes" \in DOMAIN data THEN data.lanes ELSE Str("1")
    IN  IF lanes_str.kind = "list" /\ lanes_str.items = << >>
        THEN [ok |-> FALSE, lanes |-> 0]
        ELSE LET first == IF lanes_str.kind = "list"
                          THEN lanes_str.items[1]
                          ELSE lanes_str.s
                 f == float_of(first)
             IN  IF f.ok
                 THEN [ok |-> TRUE, lanes |-> int_of(f.tenths)]
                 ELSE [ok |-> FALSE, lanes |-> 0]

\* lines 94-98: base_travel_time (default '10.0') as a number, and
\* travel_time set to it; the strings used are whole numbers
cast_edge(data) ==
    LET travel_time_str == IF "base_travel_time" \in DOMAIN data
                           THEN data.base_travel_time ELSE "10.0"
        base == float_of(travel_time_str).tenths \div 10
    IN  [lanes |-> cast_lanes(data).lanes,
         base_travel_time |-> base,
         travel_time |-> <<base, 1>>]

InitLoad ==
    /\ G \in RawGraphs
    /\ G_base = None
    /\ removed_count = 0
    /\ grid = [n \in Nodes |-> {}]
    /\ agent_positions = << >>
    /\ agents = [a \in Agents |-> [pos |-> None, destination |-> 1, path |-> <<>>]]
    /\ t = 0
    /\ steps = MaxSteps
    /\ running = TRUE
    /\ pc = "load"
    /\ cur = 1
    /\ redraws = 0
    /\ routed = 0
    /\ moved = {}
    /\ updates = 0

\* CityModel.setup, lines 83-99: the loop over the edges either casts every
\* edge or is left by the exception of the first edge that cannot be cast,
\* which ends the program
LoadCast ==
    /\ pc = "load"
    /\ IF \E e \in DOMAIN G.edges : ~cast_lanes(G.edges[e]).ok
       THEN pc' = "aborted" /\ G' = G
       ELSE /\ pc' = "setup"
            /\ G' = [G EXCEPT !.edges = [e \in DOMAIN G.edges |-> cast_edge(G.edges[e])]]
    /\ UNCHANGED <<G_base, removed_count, grid, agent_positions, agents, t, steps,
                   running, cur, redraws, routed, moved, updates>>

NextLoad == LoadCast

SpecLoad == InitLoad /\ [][NextLoad]_vars

\* ======================= claims =======================

\* the sum over the nodes of the sizes of their sets
SumCard(gr, ns) == Cardinality(UNION {{<<n, a>> : a \in gr[n]} : n \in ns})

Placed == {a \in Agents : agents[a].pos # None}

\* occupancy, load and capacity as the congestion rule states them
Occupancy(n) == Cardinality(grid[n])
Load(e) == Occupancy(e[1]) + Occupancy(e[2])
Capacity(e) == G.edges[e].lanes * CAPACITY_PER_LANE
Base(e) == <<G.edges[e].base_travel_time, 1>>

\* C1: every placed agent is in exactly one node's set, that node is its pos
\* and its agent_positions entry, an agent not placed yet is in no set, the
\* set sizes add up to the number of placed agents, and once the placement
\* loop is over every agent is placed: the sizes add up to the agent count.
C1_OneNodePerAgent ==
    /\ \A a \in Placed :
         /\ {n \in Nodes : a \in grid[n]} = {agents[a].pos}
         /\ a \in DOMAIN agent_positions
         /\ agent_positions[a] = agents[a].pos
    /\ \A a \in Agents \ Placed : \A n \in Nodes : a \notin grid[n]
    /\ SumCard(grid, Nodes) = Cardinality(Placed)
    /\ pc # "setup" => Placed = Agents /\ SumCard(grid, Nodes) = NumAgents

\* C1 witness: after a move_agent call of a tick, two agents share a node
C1_Witness ==
    /\ t >= 1
    /\ moved # {}
    /\ \E n \in Nodes : Cardinality(grid[n]) >= 2

\* C2: every edge's travel_time is at least its base_travel_time
C2_TravelTimeAtLeastBase ==
    \A e \in DOMAIN G.edges : RatLeq(Base(e), G.edges[e].travel_time)

\* C2 witness: after an update an edge is slower than its base time
C2_Witness ==
    /\ pc = "loop"
    /\ \E e \in DOMAIN G.edges : RatLt(Base(e), G.edges[e].travel_time)

\* C3: right after every congestion update, each edge's travel_time is
\* base_travel_time * load / capacity if load > capacity and base_travel_time
\* otherwise, for the occupancy left by the moves of the tick.
C3_CongestionRule ==
    pc \in {"loop", "done"} =>
        \A e \in DOMAIN G.edges :
            IF Load(e) > Capacity(e)
            THEN RatEq(G.edges[e].travel_time,
                       <<G.edges[e].base_travel_time * Load(e), Capacity(e)>>)
            ELSE RatEq(G.edges[e].travel_time, Base(e))

\* C3 witness: after the update that ends a tick with moves, one edge is over
\* its capacity and another is not
C3_Witness ==
    /\ pc = "loop"
    /\ t >= 1
    /\ moved # {}
    /\ \E e \in DOMAIN G.edges : Load(e) > Capacity(e)
    /\ \E e \in DOMAIN G.edges : Load(e) <= Capacity(e)
\* the travel_time of every edge
TravelTimes(g) == [e \in DOMAIN g.edges |-> g.edges[e].travel_time]

\* in this step agent cur calls the Router or draws a destination
Deciding ==
    /\ pc = "decide"
    /\ routed' > 0 \/ redraws' > 0

\* C4 as claimed: no Router call or destination draw of a tick comes after a
\* move_agent call of the same tick.
C4_DecisionsBeforeAllMoves == [][Deciding => moved = {}]_vars

\* C4 as amended: the agents are stepped one at a time in list order; when an
\* agent decides, it has not moved yet in this tick and the agents that have
\* moved are earlier in the list; a move is entered from the same agent's
\* decision; the congestion update runs only after the last agent's step.
C4_SequentialSteps ==
    /\ [][Deciding => cur \notin moved /\ \A a \in moved : a < cur]_vars
    /\ [][pc' = "move" => pc = "decide" /\ cur' = cur /\ cur \notin moved]_vars
    /\ [][pc = "move" => moved' = moved \cup {cur} /\ cur' = cur + 1]_vars
    /\ [](pc = "update" => cur = NumAgents + 1)

\* C4 witness: an agent without a route is about to draw a destination after
\* an earlier agent of the same tick has moved
C4_Witness ==
    /\ pc = "decide"
    /\ cur > 1
    /\ moved # {}
    /\ agents[cur].path = <<>>

\* C5: travel_time changes only in CityModel.update: no step of the agent
\* phase (decision or move) changes any edge's travel_time.
C5_TravelTimeFrozenInAgentPhase ==
    [][/\ pc \in {"setup", "decide", "move", "loop"} => TravelTimes(G)' = TravelTimes(G)
       /\ TravelTimes(G)' # TravelTimes(G) => pc = "update"]_vars

\* C5 witness: on a recomputation tick an agent is about to decide after a
\* move of the same tick, and the travel times are still those of the last
\* update, not those the present occupancy would give
C5_Witness ==
    /\ pc = "decide"
    /\ t >= 1
    /\ t % RECALCULATE_PATH_STEPS = 0
    /\ moved # {}
    /\ G.edges # update(G.edges, grid)

\* C6 as claimed: an agent's destination is redrawn at most once per tick.
C6_OneRedrawPerTick == redraws <= 1

\* C6 as amended: an agent's destination is redrawn at most three times per
\* tick, and the Router is called at most twice per tick for it.
C6_BoundedRedraws == redraws <= 3 /\ routed <= 2

\* C6 witness: an agent has drawn three destinations in one tick
C6_Witness == redraws = 3 /\ routed = 2

\* C7 as claimed: a move_agent call whose new_pos is not the head of an edge
\* leaving the agent's node leaves grid, positions and agent_positions as
\* they were.
C7_NonAdjacentMoveRefused ==
    [][\A a \in Agents, n \in Nodes :
          MoveCall(a, n) /\ ~Adjacent(G, agents[a].pos, n)
              => UNCHANGED <<grid, agents, agent_positions>>]_vars

\* C7 as amended: move_agent makes no adjacency check: for any node new_pos,
\* adjacent or not, the agent ends in new_pos's set and in no other, with pos
\* and agent_positions equal to new_pos; nothing else of the agents changes.
C7_MoveUnconditional ==
    [][\A a \in Agents, n \in Nodes :
          MoveCall(a, n) =>
              /\ agents'[a].pos = n
              /\ {x \in Nodes : a \in grid'[x]} = {n}
              /\ agent_positions'[a] = n
              /\ agents'[a].path = agents[a].path
              /\ agents'[a].destination = agents[a].destination
              /\ \A b \in Agents \ {a} :
                    /\ agents'[b] = agents[b]
                    /\ \A x \in Nodes : b \in grid'[x] <=> b \in grid[x]]_vars

\* C7 witness: an agent that move_agent was called on in this tick stands on
\* a node that no edge leads to
C7_Witness ==
    \E a \in moved :
        /\ {x \in Nodes : a \in grid[x]} = {agents[a].pos}
        /\ \A u \in Nodes : ~Adjacent(G, u, agents[a].pos)

\* C8: whenever an agent's step is about to call move_agent, new_pos (the
\* head of its path) is the head of an edge of the graph leaving its pos.
C8_MovesFollowEdges ==
    pc = "move" =>
        /\ agents[cur].path # <<>>
        /\ Adjacent(G, agents[cur].pos, Head(agents[cur].path))

\* C8 witness: an agent is about to move along a route stored in an earlier
\* tick (no Router call in this tick)
C8_Witness ==
    /\ pc = "move"
    /\ t % RECALCULATE_PATH_STEPS # 0
    /\ routed = 0
    /\ Len(agents[cur].path) >= 2

\* The steps the run can still take are bounded by Rank: the ticks left, and
\* within the tick the agents still to step (a decision and a move each),
\* the update and the loop test.
TickLen == 2 * NumAgents + 2
Rank ==
    IF pc = "done" THEN 0
    ELSE (steps - t) * TickLen + 1 +
         (CASE pc = "loop" -> 0
            [] pc = "update" -> 1
            [] pc = "move" -> 2 * (NumAgents - cur) + 2
            [] pc \in {"setup", "decide"} -> 2 * (NumAgents - cur) + 3)

\* C10: t starts at 0 and grows by one exactly when a tick starts, a tick
\* starts only while t < steps, every tick ends with one update that follows
\* the last agent's step, the run is at end only with t = steps, and nothing
\* happens after it. end is reached: before end some step is always
\* possible (an agent's decision always has a result) and every step lowers
\* the natural number Rank.
C10_RunsConfiguredTicks ==
    /\ t = 0
    /\ [][t' = t \/ (t' = t + 1 /\ pc = "loop" /\ pc' = "decide" /\ t < steps)]_vars
    /\ [][updates' # updates => updates' = updates + 1 /\ pc = "update"
                                /\ cur = NumAgents + 1]_vars
    /\ [](pc \in {"setup", "decide", "move", "update"} => updates = t)
    /\ [](pc \in {"loop", "done"} => updates = t + 1)
    /\ [](pc = "done" => t = steps)
    /\ [](Rank \in Nat)
    /\ [][Rank' < Rank]_vars
    /\ [](pc \in {"setup", "move", "update", "loop"} => ENABLED Next)
    /\ [](pc = "decide" => cur \in Agents
                            /\ StepDecision(G, t, Work(agents[cur], 0, 0)) # {})
    /\ [][pc # "done"]_vars

\* C10, as a property of the fair run (FairSpec): end is eventually reached
C10_EndReached == <>(pc = "done")

\* C10 witness: the longest configured run has ended
C10_Witness == pc = "done" /\ steps = MaxSteps /\ t = MaxSteps /\ updates = MaxSteps + 1

\* C11: when an agent's step ends without a route although the Router was
\* called (the computation failed and so did the retry after the redraw, or
\* the drawn destination is the agent's own node), the step moves nothing:
\* the agent's pos, the grid and agent_positions are unchanged, and the loop
\* goes on to the next agent's step (or, after the last agent, to the update).
C11_NoRouteNoMove ==
    [][(pc = "decide" /\ routed' >= 1 /\ agents'[cur].path = <<>>) =>
          /\ agents'[cur].pos = agents[cur].pos
          /\ grid' = grid
          /\ agent_positions' = agent_positions
          /\ moved' = moved
          /\ \A b \in Agents \ {cur} : agents'[b] = agents[b]
          /\ cur' = cur + 1
          /\ pc' = IF cur < NumAgents THEN "decide" ELSE "update"]_vars

\* C11 witness: an agent that is not the last one has just ended its step
\* idle after two failed Router calls, and the next agent is about to step
C11_Witness ==
    /\ pc = "decide"
    /\ cur > 1
    /\ routed = 2
    /\ redraws >= 2
    /\ agents[cur - 1].path = <<>>
    /\ (cur - 1) \notin moved

\* a node without out-neighbours
Isolated(g, n) == Succ(g, n) = {}

\* C12: when setup is complete and the run is about to enter its first tick,
\* no agent stands on a node without out-neighbours, provided the network has
\* at least one node that has out-neighbours (placement would have re-drawn
\* such a position).
C12_NoAgentStartsIsolated ==
    (/\ t = 0
     /\ pc \in {"update", "loop"}
     /\ \E n \in graph_nodes : ~Isolated(G, n))
        => \A a \in Agents : ~Isolated(G, agents[a].pos)

\* the nodes after p on the way to d along the line 1 - 2 - ... - n
LinePath(p, d) ==
    IF p <= d THEN [i \in 1..(d - p) |-> p + i] ELSE [i \in 1..(p - d) |-> p - i]

\* C13: on the line network, the agent placed on the first node with the last
\* node as destination stands on node 1 + k after tick k and has arrived, with
\* an empty route, after exactly NumNodes - 1 ticks; and every agent's route
\* is always the unique way to its destination, of which each tick takes
\* exactly one node (an agent that did not move in a tick is at its
\* destination).
C13_OneNodePerTick ==
    /\ (pc = "loop" /\ t <= NumNodes - 1) => agents[1].pos = 1 + t
    /\ (pc = "loop" /\ t = NumNodes - 1) => agents[1].path = <<>>
    /\ \A a \in Placed : agents[a].path = LinePath(agents[a].pos, agents[a].destination)
    /\ (pc = "loop" /\ t >= 1) =>
          \A a \in Agents :
             a \in moved \/ (agents[a].path = <<>> /\ agents[a].pos = agents[a].destination)

\* C13 witness: tick NumNodes - 1 is over and agent 1 has just arrived
C13_Witness ==
    /\ pc = "loop"
    /\ t = NumNodes - 1
    /\ 1 \in moved
    /\ agents[1].pos = NumNodes
    /\ agents[1].destination = NumNodes
    /\ agents[1].path = <<>>

\* the agent stands on its own destination without a route
AtOwnDestination(a) ==
    /\ agents[a].pos # None
    /\ agents[a].destination = agents[a].pos
    /\ agents[a].path = <<>>

\* C14: an agent placed on the node that is its destination has an empty
\* route when setup is complete; in its step of the first tick a destination
\* is drawn before the only Router call of that step (which routes to the
\* destination then held), and the agent has not moved before.
C14_RedrawOnFirstDecision ==
    /\ [](t = 0 /\ pc \in {"update", "loop"} =>
            \A a \in Agents :
               agents[a].destination = agents[a].pos => agents[a].path = <<>>)
    /\ [][(pc = "decide" /\ t = 1 /\ AtOwnDestination(cur)) =>
            /\ cur \notin moved
            /\ redraws' >= 1
            /\ routed' = 1
            /\ agents'[cur].pos = agents[cur].pos
            /\ agents'[cur].path # <<>> =>
                  /\ agents'[cur].path[Len(agents'[cur].path)] = agents'[cur].destination
                  /\ agents'[cur].destination # agents[cur].destination]_vars

\* C14 witness: in tick 1, on a network where every node reaches every node
\* (so that the route was empty only because the agent stood on its
\* destination), the agent has just been given another destination and a
\* route to it
C14_Witness ==
    /\ pc = "move"
    /\ \A u, v \in Nodes : shortest_path(G, u, v) # {}
    /\ t = 1
    /\ redraws = 1
    /\ routed = 1
    /\ agents[cur].destination # agents[cur].pos
    /\ agents[cur].path # <<>>
    /\ Len(agents[cur].path) >= 2

\* C15: once update has run (and no agent has moved since), running it again
\* leaves every edge's travel_time equal to its value after the first run.
C15_UpdateIdempotent ==
    pc \in {"loop", "done"} =>
        LET again == update(G.edges, grid)
        IN  /\ DOMAIN again = DOMAIN G.edges
            /\ \A e \in DOMAIN G.edges :
                  RatEq(again[e].travel_time, G.edges[e].travel_time)

\* C15 witness: update has just run after a tick with moves, slowed an edge
\* down, and a second run returns the same attributes
C15_Witness ==
    /\ pc = "loop"
    /\ t >= 2
    /\ moved # {}
    /\ \E e \in DOMAIN G.edges : RatLt(Base(e), G.edges[e].travel_time)
    /\ update(G.edges, grid) = G.edges

\* what the load fixes: the nodes, the edges, and each edge's lanes and
\* base_travel_time
Static(g) ==
    [nodes |-> g.nodes,
     edges |-> [e \in DOMAIN g.edges |->
                  [lanes |-> g.edges[e].lanes,
                   base_travel_time |-> g.edges[e].base_travel_time]]]

\* C16: no step of the run (placement, agent step, move, update, tick, end)
\* changes the node set, the edge set, or any edge's lanes or
\* base_travel_time; an edge's record has no other field than travel_time.
C16_NetworkFrame ==
    /\ [][Static(G)' = Static(G)]_vars
    /\ [](\A e \in DOMAIN G.edges :
             DOMAIN G.edges[e] = {"lanes", "base_travel_time", "travel_time"})

\* C16 witness: a tick has changed some travel_time while the network is
\* otherwise one of the loaded networks
C16_Witness ==
    /\ pc = "done"
    /\ t >= 2
    /\ \E g \in Graphs :
         /\ Static(G) = Static(g)
         /\ \E e \in DOMAIN G.edges : G.edges[e].travel_time # g.edges[e].travel_time

\* the model's grid, agents and agent_positions after move_agent(a, n)
\* followed by move_agent(b, m)
MoveTwo(a, n, b, m) ==
    LET s1 == move_agent(grid, agents, agent_positions, a, n)
    IN  move_agent(s1.grid, s1.agents, s1.agent_positions, b, m)

\* C20: at the start of a tick, for any two distinct agents and any two
\* target nodes, the two move_agent calls give the same grid, agent positions
\* and agent_positions in either order.
C20_MovesCommute ==
    (pc = "decide" /\ cur = 1) =>
        \A a, b \in Agents :
           a # b => \A n, m \in Nodes : MoveTwo(a, n, b, m) = MoveTwo(b, m, a, n)

\* C20 witness: a tick starts with two agents on different nodes; moved in
\* either order to one node they are both in its set and in no other
C20_Witness ==
    /\ pc = "decide"
    /\ cur = 1
    /\ t >= 1
    /\ \E a, b \in Agents, n \in Nodes :
         /\ a # b
         /\ agents[a].pos # agents[b].pos
         /\ agents[a].pos # n
         /\ agents[b].pos # n
         /\ {a, b} \subseteq MoveTwo(a, n, b, n).grid[n]
         /\ {a, b} \subseteq MoveTwo(b, n, a, n).grid[n]
         /\ \A x \in Nodes \ {n} : MoveTwo(a, n, b, n).grid[x] \cap {a, b} = {}

\* the road class of an edge of the base graph ("none": no 'highway')
RoadClass(e) ==
    IF "highway" \in DOMAIN G_base.edges[e] THEN G_base.edges[e].highway ELSE "none"

\* the edges the closure is to remove from the base graph
Closed ==
    IF \E e \in DOMAIN G_base.edges : RoadClass(e) = "motorway"
    THEN {e \in DOMAIN G_base.edges : RoadClass(e) = "motorway"}
    ELSE {e \in DOMAIN G_base.edges : RoadClass(e) = "primary"}

\* C17: once apply_highway_closure has run, G has the base graph's nodes and
\* exactly its edges except the motorway edges, or, when the base graph has
\* no motorway edge, except the primary edges; the kept edges keep their
\* attributes, the reported count is the number of edges removed, and G_base
\* is never changed.
C17_ClosureRemovesExactly ==
    /\ [](pc # "closure" =>
            /\ G.nodes = G_base.nodes
            /\ DOMAIN G.edges = (DOMAIN G_base.edges) \ Closed
            /\ \A e \in DOMAIN G.edges : G.edges[e] = G_base.edges[e]
            /\ removed_count = Cardinality(Closed)
            /\ removed_count =
                 Cardinality(DOMAIN G_base.edges) - Cardinality(DOMAIN G.edges))
    /\ [](G_base \in RoadGraphs)
    /\ [][G_base' = G_base]_vars

\* C17 witness: the base graph has no motorway, its three primary edges are
\* gone from G and an edge without road class is still there
C17_Witness ==
    /\ pc = "setup"
    /\ \A e \in DOMAIN G_base.edges : RoadClass(e) # "motorway"
    /\ removed_count = 3
    /\ \E e \in DOMAIN G_base.edges : RoadClass(e) = "primary" /\ e \notin DOMAIN G.edges
    /\ \E e \in DOMAIN G.edges : RoadClass(e) \in {"none", "residential"}

\* the agent's node followed by its route
Way(a) == <<agents[a].pos>> \o agents[a].path

\* C18: the closure changes G once, in setup before any agent is placed, any
\* route computed and any tick run, and G never changes again; every hop of
\* every agent's route is an edge of the closed graph (so none uses a
\* removed edge), every move is along an edge of the closed graph, and every
\* step has an outcome (a move is only made with a route in hand).
C18_NoRouteOverClosedRoad ==
    /\ [](pc = "closure" =>
            /\ Placed = {}
            /\ t = 0 /\ updates = 0 /\ routed = 0
            /\ \A a \in Agents : agents[a].path = <<>>)
    /\ [][G' # G => pc = "closure" /\ pc' = "setup"]_vars
    /\ [][pc' # "closure"]_vars
    /\ [](\A a \in Placed :
             \A i \in 1..(Len(Way(a)) - 1) : Adjacent(G, Way(a)[i], Way(a)[i + 1]))
    /\ [][\A a \in Agents :
             (agents[a].pos # None /\ agents'[a].pos # agents[a].pos) =>
                 Adjacent(G, agents[a].pos, agents'[a].pos)]_vars
    /\ [](pc = "move" => agents[cur].path # <<>>)
    /\ [](pc = "decide" =>
             cur \in Agents /\ ClosureStepDecision(G, Work(agents[cur], 0, 0)) # {})

\* C18 witness: in a tick an agent has drawn a destination whose direct road
\* from the agent's node was closed, and holds a longer route around it
C18_Witness ==
    /\ pc = "move"
    /\ t >= 1
    /\ removed_count > 0
    /\ redraws = 1
    /\ Adjacent(G_base, agents[cur].pos, agents[cur].destination)
    /\ ~Adjacent(G, agents[cur].pos, agents[cur].destination)
    /\ Len(agents[cur].path) >= 2

\* the string a present 'lanes' value is read from: the value itself, or
\* the first element of a list
Token(data) ==
    IF data.lanes.kind = "list" THEN data.lanes.items[1] ELSE data.lanes.s

\* a 'lanes' value that is no number: an empty list, or a string float()
\* rejects
NotANumber(data) ==
    /\ "lanes" \in DOMAIN data
    /\ \/ data.lanes.kind = "list" /\ data.lanes.items = << >>
       \/ ~float_of(Token(data)).ok

\* C19 as claimed: the load never aborts and leaves every edge with a lanes
\* value that is a positive integer, 1 where the attribute was absent, no
\* number, or not positive.
C19_MalformedLanesBecomeOne ==
    [][pc = "load" =>
          /\ pc' = "setup"
          /\ \A e \in DOMAIN G.edges :
                /\ G'.edges[e].lanes \in Nat \ {0}
                /\ "lanes" \notin DOMAIN G.edges[e] => G'.edges[e].lanes = 1
                /\ NotANumber(G.edges[e]) => G'.edges[e].lanes = 1
                /\ ("lanes" \in DOMAIN G.edges[e] /\ ~NotANumber(G.edges[e])
                      /\ float_of(Token(G.edges[e])).tenths <= 0) =>
                         G'.edges[e].lanes = 1]_vars

\* C19 as the code has it: the load aborts when some edge's lanes is no
\* number; otherwise an absent lanes becomes 1 and a present one the integer
\* part (towards zero) of the number it, or the first element of its list,
\* denotes, so lanes is positive exactly where the attribute was absent or
\* denotes a number of at least 1, and zero or negative (not 1) elsewhere.
C19_LanesCast ==
    [][pc = "load" =>
          IF \E e \in DOMAIN G.edges : NotANumber(G.edges[e])
          THEN pc' = "aborted"
          ELSE /\ pc' = "setup"
               /\ \A e \in DOMAIN G.edges :
                     LET d == G.edges[e]
                         n == G'.edges[e].lanes
                     IN  /\ n \in Int
                         /\ "lanes" \notin DOMAIN d => n = 1
                         /\ "lanes" \in DOMAIN d =>
                               LET x == float_of(Token(d)).tenths
                               IN  /\ x >= 10 => n >= 1 /\ 10 * n <= x /\ x < 10 * (n + 1)
                                   /\ (-10 < x /\ x < 10) => n = 0
                                   /\ x <= -10 => n <= -1 /\ 10 * (n - 1) < x /\ x <= 10 * n]_vars

\* C19 witness: the load has gone through and left an edge with lanes 0 or
\* less, another with lanes 2 or more
C19_Witness ==
    /\ pc = "setup"
    /\ G_base = None
    /\ DOMAIN G.edges = {<<1, 2, 0>>, <<2, 1, 0>>}
    /\ G.edges[<<1, 2, 0>>].lanes <= 0
    /\ G.edges[<<2, 1, 0>>].lanes >= 2
    /\ G.edges[<<2, 1, 0>>].base_travel_time = 1

\* the outcomes of the step the agent cur is about to take
Outcomes == StepDecision(G, t, Work(agents[cur], 0, 0))

\* the tick is one on which routes are recomputed
RecomputeTick == t % RECALCULATE_PATH_STEPS = 0

\* C21 as claimed: the step calls the Router exactly when the tick is a
\* multiple of the recompute interval or the route is empty, the first call
\* is for the destination held at the start of the step, and otherwise
\* there is no call and the route and destination are kept.
C21_FirstCallForHeldDestination ==
    pc = "decide" =>
        \A w \in Outcomes :
           /\ (RecomputeTick \/ agents[cur].path = <<>>) <=> w.nr >= 1
           /\ w.nr >= 1 => w.first_target = agents[cur].destination
           /\ w.nr = 0 =>
                 /\ w.nd = 0
                 /\ w.path = agents[cur].path
                 /\ w.destination = agents[cur].destination

\* C21 as the code has it: the Router is called exactly when the tick is a
\* multiple of the recompute interval or the route is empty when tested.  On
\* a recompute tick the first call is for the destination held at the start
\* of the step.  On any other tick with an empty route a destination is
\* drawn first and the step's only call is for the drawn one (the
\* destination kept, unless that call found no route and drew again).
\* Otherwise there is no call and no draw, and the route and destination
\* are kept.
C21_RouterCalls ==
    pc = "decide" =>
        \A w \in Outcomes :
           /\ (RecomputeTick \/ agents[cur].path = <<>>) <=> w.nr >= 1
           /\ (RecomputeTick /\ w.nr >= 1) => w.first_target = agents[cur].destination
           /\ (~RecomputeTick /\ w.nr >= 1) =>
                 /\ w.nr = 1
                 /\ w.nd >= 1
                 /\ w.nd = 1 => w.first_target = w.destination
                 /\ w.nd = 2 => shortest_path(G, agents[cur].pos, w.first_target) = {}
                 /\ w.nd <= 2
           /\ w.nr = 0 =>
                 /\ w.nd = 0
                 /\ w.path = agents[cur].path
                 /\ w.destination = agents[cur].destination

\* C21 witness: off a recompute tick an agent with an empty route is about
\* to step, and one outcome is a route to a drawn destination that is not
\* the one it holds; another agent of the tick keeps following its route
C21_Witness ==
    /\ pc = "decide"
    /\ t >= 1
    /\ ~RecomputeTick
    /\ agents[cur].path = <<>>
    /\ \E w \in Outcomes :
          /\ w.nr = 1
          /\ w.path # <<>>
          /\ w.first_target # agents[cur].destination
    /\ \E b \in moved : agents[b].path # <<>>

\* C22: CityModel.update leaves every agent's pos, destination and path, the
\* grid and agent_positions as they were (and t, and the network apart from
\* travel_time); once setup has placed the agents, the grid and
\* agent_positions change only in a move step, and then to what move_agent
\* returns for the stepping agent and the head of its route.
C22_UpdateFrame ==
    /\ [][pc = "update" =>
            /\ pc' = "loop"
            /\ agents' = agents
            /\ grid' = grid
            /\ agent_positions' = agent_positions
            /\ t' = t
            /\ Static(G)' = Static(G)]_vars
    /\ [][(pc # "setup" /\ (grid' # grid \/ agent_positions' # agent_positions)) =>
            /\ pc = "move"
            /\ LET m == move_agent(grid, agents, agent_positions, cur,
                                   Head(agents[cur].path))
               IN  grid' = m.grid /\ agent_positions' = m.agent_positions]_vars

\* C22 witness: an update has just run after a tick in which every agent
\* moved, with all agents on one node, and has slowed an edge down
C22_Witness ==
    /\ pc = "loop"
    /\ t >= 1
    /\ moved = Agents
    /\ \E n \in Nodes : grid[n] = Agents
    /\ \A a \in Agents : agent_positions[a] = agents[a].pos
    /\ \E e \in DOMAIN G.edges : RatLt(Base(e), G.edges[e].travel_time)

\* C23: in every state of the run, tick boundaries included, every placed
\* agent's non-empty route ends in its destination, starts with an
\* out-neighbour of its node, joins consecutive nodes by edges, and contains
\* neither the agent's node nor a node twice.
C23_RouteWellFormed ==
    \A a \in Placed :
       LET p == agents[a].path
       IN  p # <<>> =>
              /\ p[Len(p)] = agents[a].destination
              /\ Adjacent(G, agents[a].pos, p[1])
              /\ \A i \in 1..(Len(p) - 1) : Adjacent(G, p[i], p[i + 1])
              /\ agents[a].pos \notin Range(p)
              /\ \A i, j \in 1..Len(p) : p[i] = p[j] => i = j

\* C23 witness: a tick in which every agent moved is over, and every agent
\* still holds a route
C23_Witness ==
    /\ pc = "loop"
    /\ t >= 1
    /\ moved = Agents
    /\ \A a \in Agents : agents[a].path # <<>>
    /\ \E a, b \in Agents : agents[a].destination # agents[b].destination

\* C24: in a tick an agent's pos changes at most once, in its own move step:
\* the move takes it to the first node of the route it holds after its
\* decision, removes exactly that node from the front of the route and
\* leaves the rest, the destination and the other agents as they were; an
\* agent whose decision leaves it without a route is passed over and keeps
\* its pos, and at the end of the tick the agents that did not move have no
\* route.
C24_OneMovePerTick ==
    /\ [][pc = "move" =>
            /\ cur \notin moved
            /\ moved' = moved \cup {cur}
            /\ cur' = cur + 1
            /\ agents'[cur].pos = Head(agents[cur].path)
            /\ agents'[cur].path = Tail(agents[cur].path)
            /\ agents'[cur].destination = agents[cur].destination
            /\ \A b \in Agents \ {cur} : agents'[b] = agents[b]]_vars
    /\ [][\A a \in Agents :
             (pc # "setup" /\ agents'[a].pos # agents[a].pos) =>
                 pc = "move" /\ a = cur /\ a \notin moved]_vars
    /\ [][pc = "decide" =>
            /\ moved' = moved
            /\ agents'[cur].path = <<>> => pc' # "move" /\ cur' = cur + 1
            /\ agents'[cur].path # <<>> => pc' = "move" /\ cur' = cur]_vars
    /\ [][moved' # moved => pc \in {"move", "loop"}]_vars
    /\ []((pc \in {"update", "loop"} /\ t >= 1) =>
             \A a \in Agents \ moved : agents[a].path = <<>>)

\* C24 witness: the agents of a tick have all stepped; one has moved and
\* holds the rest of its route, another stayed where it was without a route
C24_Witness ==
    /\ pc = "update"
    /\ t >= 1
    /\ \E a \in moved : agents[a].path # <<>>
    /\ \E b \in Agents \ moved :
          agents[b].path = <<>> /\ b \in grid[agents[b].pos]

====
